---------------------------- MODULE Spec2Model ----------------------------
(***************************************************************************)
(* rot.py: run a child process and collect its stdout / stderr, each       *)
(* optionally into a file that is capped at a byte limit or rotated        *)
(* through numbered files <path>.1 .. <path>.<count>.                      *)
(*                                                                         *)
(* The model follows src/rot.py: main and read_argv with the validators,   *)
(* run_program (the supervisor), the two                                   *)
(* StreamCollector threads (run / _read_fd / _list_logs), the child        *)
(* process writing into the two pipes, and the file system the collectors  *)
(* act on (directory entries, inodes, buffered file objects).              *)
(*                                                                         *)
(* Conventions                                                             *)
(*   - Python's None is 0 for limit / count (the code tests them by        *)
(*     truthiness, `if self.limit`, `if self.count`) and the empty         *)
(*     sequence for a file name (`if fname`).                              *)
(*   - A file name is a sequence of naturals: <<b>> is the path b,         *)
(*     <<b, n>> is "<b>.<n>".  '%s' % None is the literal name "None",     *)
(*     written <<0>>.                                                      *)
(*   - The k-th byte the child writes (to either pipe) has the value k,    *)
(*     so that a dropped, repeated or reordered byte is always visible.    *)
(***************************************************************************)
EXTENDS Integers, Sequences, FiniteSets, TLC

\* ---------------------------------------------------------------- bounds
\* Total number of bytes the child writes (both pipes together).
MaxInput == 4
\* Largest byte limit (--std*-limit) tried; 0 stands for "not given".
MaxLimit == 2
\* Largest rotation count (--std*-count) tried; 0 stands for "not given".
MaxCount == 3
\* StreamCollector.BUF_SIZE (1024 in the code) scaled to the model's
\* stream lengths: a read returns at most this many bytes.
BUF_SIZE == 2
\* Largest suffix of a rotated file that may exist before the program runs.
MaxPre == 2

Streams == {"out", "err"}

\* Exit codes the child may end with.
ExitCodes == {0, 3}

\* The file name None.
NoName == << >>

\* --------------------------------------------------------------- helpers
Min(a, b) == IF a < b THEN a ELSE b
Max(a, b) == IF a > b THEN a ELSE b

Take(q, n) == SubSeq(q, 1, Min(n, Len(q)))
Drop(q, n) == SubSeq(q, Min(n, Len(q)) + 1, Len(q))

RECURSIVE Reverse(_)
Reverse(q) == IF q = << >> THEN << >> ELSE Append(Reverse(Tail(q)), Head(q))

IsPrefix(p, q) == Len(p) <= Len(q) /\ SubSeq(q, 1, Len(p)) = p

VARIABLES
    opts,        \* Opts: per stream [fname, limit, count], validated
    dir,         \* directory: file name -> inode number
    inode,       \* inode number -> file content (sequence of bytes)
    std,         \* bytes written to the program's own stdout / stderr
    child,       \* "none" | "running" | "exited"
    exit_code,   \* the code the child exited with
    nsent,       \* number of bytes the child has written so far
    pipe,        \* per stream: bytes written by the child, not yet read
    sup,         \* position of run_program
    returncode,  \* p.returncode (-1: not yet known)
    result,      \* value returned by run_program (-1: not yet returned)
    pc,          \* per stream: position of the StreamCollector
    fo,          \* per stream: self.fo, the output file object
    curr_pos,    \* per stream: self.curr_pos
    buff,        \* per stream: the chunk _read_fd holds across a rotation
    log_files,   \* per stream: the rest of the list the rotation loops over
    last,        \* per stream: outcome of the latest os.read
    consumed,    \* per stream: every byte read from the pipe so far
    nrot,        \* per stream: number of rotations completed so far
    displaced,   \* per stream: content of the file the latest rotation closed
    dir0,        \* the directory as it was when the program started
    argv,        \* the command line: the flags as given, and the command
    status,      \* value returned by main (-1: not yet returned)
    touched,     \* per stream: names the collector created, wrote, renamed
                 \* or removed
    closes       \* per stream: for each file the collector opened, in
                 \* order, the number of times it closed it

vars == << opts, dir, inode, std, child, exit_code, nsent, pipe, sup,
           returncode, result, pc, fo, curr_pos, buff, log_files, last,
           consumed, nrot, displaced, dir0, argv, status, touched, closes >>

fsvars    == << dir, inode, std >>
hist      == << nrot, displaced, dir0, touched, closes >>
mainvars  == << argv, status >>
childvars == << child, exit_code, nsent >>
supvars   == << sup, returncode, result >>

\* ------------------------------------------------------------ file names
\* '%s' % fname: None is formatted as the literal "None".
Fmt(fname) == IF fname = NoName THEN << 0 >> ELSE fname

\* '%s.%d' % (fname, i)
LogName(fname, i) == Append(Fmt(fname), i)

\* glob.glob("%s.*" % fname): every existing name that extends fname by at
\* least one dot-separated component.
Glob(d, fname) ==
    { n \in DOMAIN d : Len(n) > Len(Fmt(fname)) /\ IsPrefix(Fmt(fname), n) }

\* int(name.split('.')[-1])
Counter(n) == n[Len(n)]

RECURSIVE SortByCounter(_)
SortByCounter(names) ==
    IF names = {} THEN << >>
    ELSE LET m == CHOOSE x \in names :
                      \A y \in names : Counter(x) <= Counter(y)
         IN  << Counter(m) >> \o SortByCounter(names \ {m})

\* StreamCollector._list_logs: the sorted list of the non-zero counters.
ListLogs(d, fname) ==
    SortByCounter({ n \in Glob(d, fname) : Counter(n) # 0 })

\* ----------------------------------------------------------- file system
Exists(d, n) == n \in DOMAIN d

FreshIno(ino) ==
    CHOOSE i \in 1..(Cardinality(DOMAIN ino) + 1) : i \notin DOMAIN ino

\* os.rename(src, dst) on the directory (dst is replaced when it exists).
Rename(d, src, dst) ==
    [ n \in (DOMAIN d \ {src}) \cup {dst} |-> IF n = dst THEN d[src] ELSE d[n] ]

\* os.remove(n) on the directory.
Remove(d, n) == [ m \in DOMAIN d \ {n} |-> d[m] ]

\* An inode lives while a name or an open file object refers to it.
Live(d, f) ==
    { d[n] : n \in DOMAIN d } \cup
    { f[s].ino : s \in { t \in Streams : ~f[t].closed /\ f[t].ino # 0 } }

Collect(ino, d, f) == [ i \in DOMAIN ino \cap Live(d, f) |-> ino[i] ]

\* Bytes x stored at offset p of content c (a hole reads as 0 bytes).
WriteAt(c, p, x) ==
    [ i \in 1..Max(Len(c), p + Len(x)) |->
        IF i > p /\ i <= p + Len(x) THEN x[i - p]
        ELSE IF i <= Len(c) THEN c[i] ELSE 0 ]

\* ---------------------------------------------------------- file objects
\* A file object: ino = 0 is the default stream (sys.stdout / sys.stderr),
\* pos the file offset, wbuf the bytes written but not yet flushed.
StdFile  == [ ino |-> 0, pos |-> 0, wbuf |-> << >>, closed |-> FALSE ]
NoFile   == [ ino |-> 0, pos |-> 0, wbuf |-> << >>, closed |-> TRUE ]

\* fo.write(x): the bytes go to the file object's buffer.
FWrite(f, x) == [ f EXCEPT !.wbuf = f.wbuf \o x ]

\* The file object after fo.flush().
Flushed(f) == [ f EXCEPT !.pos = f.pos + Len(f.wbuf), !.wbuf = << >> ]

\* The inodes after fo.flush() of file object f.
FlushIno(ino, f) ==
    IF f.ino = 0 \/ f.wbuf = << >> THEN ino
    ELSE [ ino EXCEPT ![f.ino] = WriteAt(ino[f.ino], f.pos, f.wbuf) ]

\* A flush that never reaches the default stream.
FlushStd_Lost(out, f) == out

\* The default stream after fo.flush() of file object f.
FlushStd(out, f) == IF f.ino = 0 THEN out \o f.wbuf ELSE out

\* The content of the file as seen through file object f: what is on disk
\* with the bytes still buffered in f put in place.
View(ino, f) ==
    IF f.ino \in DOMAIN ino THEN WriteAt(ino[f.ino], f.pos, f.wbuf) ELSE << >>

\* ---------------------------------------------------------- command line
\* A flag as given on the command line.  A file flag is a path (NoName:
\* the flag is absent) and the state of the path's directory; a count flag
\* is absent ("none"), text that int() rejects ("junk") or an integer; a
\* limit flag is absent, or a number part (an integer, or "junk") followed
\* by a one-letter unit.
NoFileFlag  == [ path |-> NoName, parent |-> "ok" ]
NoCountFlag == [ k |-> "none", n |-> 0 ]
NoLimitFlag == [ k |-> "none", n |-> 0, unit |-> "B" ]

\* What a validator hands back: the valid value, or err_msg is set and
\* Validator.__call__ raises RotError.
Valid(v) == [ ok |-> TRUE, v |-> v ]
Invalid  == [ ok |-> FALSE ]

\* A validator that lets a count of 0 through.
ValidateCount_ZeroOk(c) ==
    IF c.k = "none" THEN Valid(0)
    ELSE IF c.k = "junk" THEN Invalid
    ELSE IF c.n < 0 THEN Invalid
    ELSE Valid(c.n)

\* Validator._validate_count (None is returned for an absent flag).
ValidateCount(c) ==
    IF c.k = "none" THEN Valid(0)
    ELSE IF c.k = "junk" THEN Invalid
    ELSE IF c.n <= 0 THEN Invalid
    ELSE Valid(c.n)

\* Validator._validate_file: the path must not exist, its directory must
\* exist and be writable.  Nothing is created here.
ValidateFile(d, f) ==
    IF f.path = NoName THEN Valid(NoName)
    ELSE IF Exists(d, f.path) THEN Invalid
    ELSE IF f.parent = "missing" THEN Invalid
    ELSE IF f.parent = "readonly" THEN Invalid
    ELSE Valid(f.path)

\* n2bytes of _validate_limit.
Units == {"B", "K", "M", "G"}
N2Bytes(u) ==
    IF u = "B" THEN 1
    ELSE IF u = "K" THEN 1024
    ELSE IF u = "M" THEN 1024 * 1024
    ELSE 1024 * 1024 * 1024

\* Validator._validate_limit
ValidateLimit(l) ==
    IF l.k = "none" THEN Valid(0)
    ELSE IF l.unit \notin Units THEN Invalid
    ELSE IF l.k = "junk" THEN Invalid
    ELSE IF l.n <= 0 THEN Invalid
    ELSE Valid(l.n * N2Bytes(l.unit))

\* Validator._validate_args: "none" is an empty command, "missing" a
\* command that `which` does not find, "ok" a command it finds.
ValidateArgs(a) == IF a = "ok" THEN Valid(a) ELSE Invalid

\* The Opts read_argv builds, or Invalid when a validator raised.
ParseArgv(d, a) ==
    LET f(s) == ValidateFile(d, a.flags[s].file)
        c(s) == ValidateCount(a.flags[s].count)
        l(s) == ValidateLimit(a.flags[s].limit)
    IN  IF /\ \A s \in Streams : f(s).ok /\ c(s).ok /\ l(s).ok
           /\ ValidateArgs(a.args).ok
        THEN Valid([ s \in Streams |->
                       [ fname |-> f(s).v, limit |-> l(s).v,
                         count |-> c(s).v ] ])
        ELSE Invalid

\* A command line that read_argv turns into the options o.
ArgvOf(o) ==
    [ flags |-> [ s \in Streams |->
        [ file  |-> [ path |-> o[s].fname, parent |-> "ok" ],
          count |-> IF o[s].count = 0 THEN NoCountFlag
                    ELSE [ k |-> "int", n |-> o[s].count ],
          limit |-> IF o[s].limit = 0 THEN NoLimitFlag
                    ELSE [ k |-> "int", n |-> o[s].limit, unit |-> "B" ] ] ],
      args |-> "ok" ]

\* ------------------------------------------------------------------ Init
\* The target path of a stream when one is given (validate_file returns
\* an absolute path; the two streams are given different paths here).
PathOf(s) == IF s = "out" THEN << 1 >> ELSE << 2 >>

\* What read_argv may return for one stream: validate_file gives None or a
\* path, validate_limit and validate_count give None or a number > 0.
StreamOpts(s) ==
    [ fname : {NoName, PathOf(s)}, limit : 0..MaxLimit, count : 0..MaxCount ]

\* A stream collected without limit and count (to a file or not).
Unbounded(o) == o.limit = 0 /\ o.count = 0

\* The option pairs explored: each stream takes every combination of file,
\* limit and count while the other one is collected without limit and count.
OptsSet == { o \in [Streams -> UNION { StreamOpts(s) : s \in Streams }] :
               /\ \A s \in Streams : o[s] \in StreamOpts(s)
               /\ \E s \in Streams : Unbounded(o[s]) }

\* A directory holding the rotated files <path>.<n>, n in P, left over from
\* an earlier run (validate_file only requires that <path> itself is new).
\* They hold bytes older than any byte of this run, the file with the
\* larger suffix the older ones (byte values grow with time).
PreDir(path, P) == [ n \in { Append(path, i) : i \in P } |-> Counter(n) ]
PreIno(P)       == [ i \in P |-> << 0 - i >> ]

\* The state in which main is at position `at` with the command line a,
\* the options o, and the directory d of inodes ino; nothing has run yet.
StartState(o, d, ino, a, at) ==
    /\ opts = o
    /\ dir = d
    /\ dir0 = d
    /\ inode = ino
    /\ std = [ s \in Streams |-> << >> ]
    /\ child = "none"
    /\ exit_code = -1
    /\ nsent = 0
    /\ pipe = [ s \in Streams |-> << >> ]
    /\ sup = at
    /\ returncode = -1
    /\ result = -1
    /\ pc = [ s \in Streams |-> "new" ]
    /\ fo = [ s \in Streams |-> NoFile ]
    /\ curr_pos = [ s \in Streams |-> 0 ]
    /\ buff = [ s \in Streams |-> << >> ]
    /\ log_files = [ s \in Streams |-> << >> ]
    /\ last = [ s \in Streams |-> "none" ]
    /\ consumed = [ s \in Streams |-> << >> ]
    /\ nrot = [ s \in Streams |-> 0 ]
    /\ displaced = [ s \in Streams |-> << >> ]
    /\ argv = a
    /\ status = -1
    /\ touched = [ s \in Streams |-> {} ]
    /\ closes = [ s \in Streams |-> << >> ]

\* run_program is entered with the options o.
InitState(o, d, ino) == StartState(o, d, ino, ArgvOf(o), "popen")

\* run_program is entered with validated options and no rotated files.
Init == \E o \in OptsSet : InitState(o, << >>, << >>)

\* run_program is entered while rotated files of an earlier run may exist
\* next to the stdout path, which is rotated; stderr goes to the default
\* stream.
InitPre ==
    \E o \in OptsSet, P \in SUBSET (1..MaxPre) :
        /\ o["out"].fname # NoName
        /\ o["out"].limit # 0
        /\ o["out"].count # 0
        /\ o["err"] = [ fname |-> NoName, limit |-> 0, count |-> 0 ]
        /\ InitState(o, PreDir(PathOf("out"), P), PreIno(P))

\* The options before read_argv has returned.
NoOpts == [ s \in Streams |-> [ fname |-> NoName, limit |-> 0, count |-> 0 ] ]

\* The flags tried for stdout: every kind of file, count and limit flag,
\* valid or not.
OutFiles  == { NoFileFlag } \cup
             { [ path |-> PathOf("out"), parent |-> w ] :
                 w \in {"ok", "missing", "readonly"} }
OutCounts == { NoCountFlag, [ k |-> "junk", n |-> 0 ] } \cup
             { [ k |-> "int", n |-> n ] : n \in {0, 1} }
OutLimits == { NoLimitFlag, [ k |-> "junk", n |-> 0, unit |-> "B" ],
               [ k |-> "int", n |-> 1, unit |-> "X" ],
               [ k |-> "int", n |-> 0, unit |-> "B" ],
               [ k |-> "int", n |-> 1, unit |-> "B" ],
               [ k |-> "int", n |-> 1, unit |-> "K" ] }
\* The flags tried for stderr: absent, or given and wrong in one way.
ErrFiles  == { NoFileFlag, [ path |-> PathOf("err"), parent |-> "ok" ] }
ErrCounts == { NoCountFlag, [ k |-> "int", n |-> -1 ] }
ErrLimits == { NoLimitFlag, [ k |-> "int", n |-> 1, unit |-> "b" ] }

ArgvSet ==
    { [ flags |-> [ s \in Streams |-> IF s = "out" THEN o ELSE e ],
        args |-> a ] :
        o \in [ file : OutFiles, count : OutCounts, limit : OutLimits ],
        e \in [ file : ErrFiles, count : ErrCounts, limit : ErrLimits ],
        a \in {"none", "missing", "ok"} }

\* main is entered: nothing is validated yet; one of the two target paths
\* may name a file that exists.
InitMain ==
    \E a \in ArgvSet, P \in { {}, {PathOf("out")}, {PathOf("err")} } :
        StartState(NoOpts, [ n \in P |-> 1 ], [ i \in { 1 : n \in P } |-> << >> ],
                   a, "read_argv")

\* run_program is entered with any options for stdout, while stderr goes
\* to the default stream; no rotated files exist.
InitFair ==
    \E o \in OptsSet :
        /\ o["err"] = [ fname |-> NoName, limit |-> 0, count |-> 0 ]
        /\ InitState(o, << >>, << >>)

\* Command lines whose two target paths meet: --stderr-file is the path of
\* --stdout-file, or that path followed by ".1".  stdout is rotated; stderr
\* has the same limit and count, or none.
SharedArgvSet ==
    { [ flags |-> [ s \in Streams |->
          [ file  |-> [ path |-> IF s = "out" THEN PathOf("out") ELSE p,
                        parent |-> "ok" ],
            count |-> IF s = "out" \/ both THEN [ k |-> "int", n |-> c ]
                      ELSE NoCountFlag,
            limit |-> IF s = "out" \/ both
                      THEN [ k |-> "int", n |-> l, unit |-> "B" ]
                      ELSE NoLimitFlag ] ],
        args |-> "ok" ] :
        p \in { PathOf("out"), LogName(PathOf("out"), 1) },
        c \in 1..MaxCount, l \in 1..MaxLimit, both \in BOOLEAN }

\* main is entered with such a command line; no file exists.
InitShared ==
    \E a \in SharedArgvSet : StartState(NoOpts, << >>, << >>, a, "read_argv")

\* ------------------------------------------------------------- the child
\* The child writes one more byte to its stdout or stderr.
ChildWrite(s) ==
    /\ child = "running"
    /\ nsent < MaxInput
    /\ nsent' = nsent + 1
    /\ pipe' = [ pipe EXCEPT ![s] = Append(@, nsent + 1) ]
    /\ UNCHANGED << opts, fsvars, child, exit_code, supvars, pc, fo, curr_pos,
                    buff, log_files, last, consumed, hist,
                    mainvars >>

\* The child terminates; the operating system closes its pipe ends.
ChildExit(rc) ==
    /\ child = "running"
    /\ child' = "exited"
    /\ exit_code' = rc
    /\ UNCHANGED << opts, fsvars, nsent, pipe, supvars, pc, fo, curr_pos,
                    buff, log_files, last, consumed, hist,
                    mainvars >>

\* ------------------------------------------------------------ supervisor
\* subprocess.Popen(...)
Popen ==
    /\ sup = "popen"
    /\ child' = "running"
    /\ sup' = "new_out"
    /\ UNCHANGED << opts, fsvars, exit_code, nsent, pipe, returncode, result,
                    pc, fo, curr_pos, buff, log_files, last, consumed, hist,
                    mainvars >>

AtNew(s)    == sup = IF s = "out" THEN "new_out" ELSE "new_err"
AtStart(s)  == sup = IF s = "out" THEN "start_out" ELSE "start_err"
AtJoin(s)   == sup = IF s = "out" THEN "join_out" ELSE "join_err"
NextNew(s)   == IF s = "out" THEN "new_err" ELSE "start_out"
NextStart(s) == IF s = "out" THEN "start_err" ELSE "wait"
NextJoin(s)  == IF s = "out" THEN "join_err" ELSE "return"

\* open(fname, 'wb'): create the file or truncate it; a fresh file object.
OpenDir(d, ino, fname) ==
    IF Exists(d, fname) THEN d
    ELSE [ n \in DOMAIN d \cup {fname} |->
             IF n = fname THEN FreshIno(ino) ELSE d[n] ]
OpenIno(d, ino, fname) ==
    IF Exists(d, fname) THEN [ ino EXCEPT ![d[fname]] = << >> ]
    ELSE [ i \in DOMAIN ino \cup {FreshIno(ino)} |->
             IF i \in DOMAIN ino THEN ino[i] ELSE << >> ]
OpenFile(d, ino, fname) ==
    [ ino |-> OpenDir(d, ino, fname)[fname], pos |-> 0, wbuf |-> << >>,
      closed |-> FALSE ]

\* History: the collector of s acted on the names N; it opened one more
\* file; it closed the file it opened last.
Touch(s, N)  == [ touched EXCEPT ![s] = @ \cup N ]
Opened(s)    == [ closes EXCEPT ![s] = Append(@, 0) ]
ClosedOne(s) == [ closes EXCEPT ![s][Len(closes[s])] = @ + 1 ]

\* StreamCollector.__init__
Construct(s) ==
    /\ AtNew(s)
    /\ pc[s] = "new"
    /\ IF opts[s].fname # NoName
       THEN /\ dir' = OpenDir(dir, inode, opts[s].fname)
            /\ inode' = OpenIno(dir, inode, opts[s].fname)
            /\ fo' = [ fo EXCEPT ![s] = OpenFile(dir, inode, opts[s].fname) ]
            /\ touched' = Touch(s, {opts[s].fname})
            /\ closes' = Opened(s)
       ELSE /\ fo' = [ fo EXCEPT ![s] = StdFile ]
            /\ UNCHANGED << dir, inode, touched, closes >>
    /\ curr_pos' = [ curr_pos EXCEPT ![s] = 0 ]
    /\ pc' = [ pc EXCEPT ![s] = "ready" ]
    /\ sup' = NextNew(s)
    /\ UNCHANGED << opts, std, childvars, pipe, returncode, result, buff,
                    log_files, last, consumed, nrot, displaced, dir0,
                    mainvars >>

\* out_thread.start() / err_thread.start()
Start(s) ==
    /\ AtStart(s)
    /\ pc' = [ pc EXCEPT ![s] = "read" ]
    /\ sup' = NextStart(s)
    /\ UNCHANGED << opts, fsvars, childvars, pipe, returncode, result, fo,
                    curr_pos, buff, log_files, last, consumed, hist,
                    mainvars >>

\* p.wait()
Wait ==
    /\ sup = "wait"
    /\ child = "exited"
    /\ returncode' = exit_code
    /\ sup' = "join_out"
    /\ UNCHANGED << opts, fsvars, childvars, pipe, result, pc, fo, curr_pos,
                    buff, log_files, last, consumed, hist,
                    mainvars >>

\* A thread has ended: run returned, or an exception left it.
Ended(s) == pc[s] \in {"finished", "failed"}

\* A supervisor that does not wait for the thread.
JoinReady_NoWait(s) == TRUE

\* thread.join() returns once the thread has ended.
JoinReady(s) == Ended(s)

\* out_thread.join() / err_thread.join()
Join(s) ==
    /\ AtJoin(s)
    /\ JoinReady(s)
    /\ sup' = NextJoin(s)
    /\ UNCHANGED << opts, fsvars, childvars, pipe, returncode, result, pc, fo,
                    curr_pos, buff, log_files, last, consumed, hist,
                    mainvars >>

\* return p.returncode
Return ==
    /\ sup = "return"
    /\ result' = returncode
    /\ sup' = "done"
    /\ UNCHANGED << opts, fsvars, childvars, pipe, returncode, pc, fo,
                    curr_pos, buff, log_files, last, consumed, hist,
                    mainvars >>

\* main: `opts = read_argv()`.  A validator that raises RotError ends main
\* in its except clause, which returns 1.
ReadArgv ==
    /\ sup = "read_argv"
    /\ LET r == ParseArgv(dir, argv) IN
       IF r.ok
       THEN /\ opts' = r.v
            /\ sup' = "popen"
            /\ UNCHANGED status
       ELSE /\ status' = 1
            /\ sup' = "rot_error"
            /\ UNCHANGED opts
    /\ UNCHANGED << fsvars, childvars, pipe, returncode, result, pc, fo,
                    curr_pos, buff, log_files, last, consumed, hist, argv >>

\* subprocess.Popen raises OSError (the shell cannot be started): the
\* exception leaves run_program and the except clause of main returns 1.
PopenFails ==
    /\ sup = "popen"
    /\ status' = 1
    /\ sup' = "os_error"
    /\ UNCHANGED << opts, fsvars, childvars, pipe, returncode, result, pc, fo,
                    curr_pos, buff, log_files, last, consumed, hist, argv >>

\* main: `exit_code = run_program(opts); return exit_code`
MainReturn ==
    /\ sup = "done"
    /\ status' = result
    /\ sup' = "exit"
    /\ UNCHANGED << opts, fsvars, childvars, pipe, returncode, result, pc, fo,
                    curr_pos, buff, log_files, last, consumed, hist, argv >>

\* ------------------------------------------------------- StreamCollector
\* Everything of a collector step that the step leaves alone.
Others == << opts, childvars, supvars, dir0, mainvars >>
Ghosts == << nrot, displaced, touched, closes >>

\* os.read(self.fd_in, BUF_SIZE) when the pipe holds data.
Chunk(s) == Take(pipe[s], BUF_SIZE)

\* A collector that takes a count alone for a limit.
HasLimit_OrCount(s) == opts[s].limit # 0 \/ opts[s].count # 0

\* `if self.limit`
HasLimit(s) == opts[s].limit # 0

\* d = self.limit - self.curr_pos
Room(s) == opts[s].limit - curr_pos[s]

\* `if self.count and l > d` after the first d bytes were written.
MustRotate(s, l) == opts[s].count # 0 /\ l > Room(s)

\* A collector that forgets to advance curr_pos.
Advance_Stuck(pos, l) == pos

\* self.curr_pos after a chunk of length l that did not rotate.
Advance(pos, l) == pos + l

\* self.fo.write(x); self.fo.flush()
WriteFlush(s, x) ==
    LET f == FWrite(fo[s], x) IN
    /\ inode' = FlushIno(inode, f)
    /\ std' = [ std EXCEPT ![s] = FlushStd(@, f) ]
    /\ fo' = [ fo EXCEPT ![s] = Flushed(f) ]
    /\ touched' = IF opts[s].fname # NoName /\ x # << >>
                  THEN Touch(s, {opts[s].fname}) ELSE touched

\* _read_fd, lines 241-252 and 265-270: a non-empty chunk is read and
\* written (whole, or its first d bytes, or not at all).
ReadFd(s) ==
    /\ pc[s] = "read"
    /\ pipe[s] # << >>
    /\ LET b == Chunk(s)
           l == Len(b)
       IN  /\ pipe' = [ pipe EXCEPT ![s] = Drop(@, l) ]
           /\ consumed' = [ consumed EXCEPT ![s] = @ \o b ]
           /\ last' = [ last EXCEPT ![s] = "chunk" ]
           /\ IF HasLimit(s)
              THEN IF Room(s) > 0
                   THEN /\ WriteFlush(s, Take(b, Room(s)))
                        /\ IF MustRotate(s, l)
                           THEN /\ pc' = [ pc EXCEPT ![s] = "list_logs" ]
                                /\ buff' = [ buff EXCEPT ![s] = b ]
                                /\ UNCHANGED curr_pos
                           ELSE /\ curr_pos' =
                                     [ curr_pos EXCEPT ![s] = Advance(@, l) ]
                                /\ UNCHANGED << pc, buff >>
                   ELSE UNCHANGED << inode, std, fo, touched, curr_pos, pc,
                                     buff >>
              ELSE /\ WriteFlush(s, b)
                   /\ UNCHANGED << curr_pos, pc, buff >>
    /\ UNCHANGED << Others, nrot, displaced, closes, dir, log_files >>

\* A loop that lets every OSError out of run().
OnOSError_Raise(e) == "failed"

\* `except OSError as e: if e.errno != errno.EAGAIN: raise` in run():
\* where the collector is after os.read raised OSError with errno e.
OnOSError(e) == IF e = "EAGAIN" THEN "read" ELSE "failed"

\* os.read raises OSError(EAGAIN): the pipe is empty and still open for
\* writing; run() swallows the error and reads again.
ReadAgain(s) ==
    /\ pc[s] = "read"
    /\ pipe[s] = << >>
    /\ child # "exited"
    /\ last' = [ last EXCEPT ![s] = "eagain" ]
    /\ pc' = [ pc EXCEPT ![s] = OnOSError("EAGAIN") ]
    /\ UNCHANGED << Others, Ghosts, fsvars, pipe, fo, curr_pos, buff,
                    log_files, consumed >>

\* fo.close(): flush what is buffered, then close.
Closed(f) == [ Flushed(f) EXCEPT !.closed = TRUE ]

\* A collector that takes every stream for the default stream.
OwnsFile_Never(s) == FALSE

\* `if self.fo != self.default_stream` at the end of run().
OwnsFile(s) == fo[s].ino # 0

\* os.read returns '' (the pipe is empty and the child has exited): the
\* loop of run() ends and the collector closes the file it owns.
ReadEof(s) ==
    /\ pc[s] = "read"
    /\ pipe[s] = << >>
    /\ child = "exited"
    /\ last' = [ last EXCEPT ![s] = "eof" ]
    /\ pc' = [ pc EXCEPT ![s] = "finished" ]
    /\ IF OwnsFile(s)
       THEN LET f == [ fo EXCEPT ![s] = Closed(@) ] IN
            /\ fo' = f
            /\ inode' = Collect(FlushIno(inode, fo[s]), dir, f)
            /\ closes' = ClosedOne(s)
       ELSE UNCHANGED << fo, inode, closes >>
    /\ UNCHANGED << Others, nrot, displaced, touched, dir, std, pipe,
                    curr_pos, buff,
                    log_files, consumed >>

\* A rotation that walks the suffixes from the lowest upward.
LoopOrder_Ascending(q) == q

\* log_files.reverse(): the loop takes the highest suffix first.
LoopOrder(q) == Reverse(q)

\* log_files = self._list_logs(); log_files.reverse()
RotateList(s) ==
    /\ pc[s] = "list_logs"
    /\ log_files' = [ log_files EXCEPT ![s] =
                        LoopOrder(ListLogs(dir, opts[s].fname)) ]
    /\ pc' = [ pc EXCEPT ![s] = "shift" ]
    /\ UNCHANGED << Others, Ghosts, fsvars, pipe, fo, curr_pos, buff, last,
                    consumed >>

\* A rotation loop that compares with > instead of >=.
IsExpired_OffByOne(s, i) == i > opts[s].count

\* `if i >= self.count` in the rotation loop: the file is removed.
IsExpired(s, i) == i >= opts[s].count

\* The name log file i is renamed to.
ShiftTarget(fname, i) == LogName(fname, i + 1)

\* One turn of `for i in log_files`: os.remove or os.rename of <fname>.<i>
\* (either raises OSError when that file does not exist).
RotateShift(s) ==
    /\ pc[s] = "shift"
    /\ log_files[s] # << >>
    /\ LET i == Head(log_files[s])
           n == LogName(opts[s].fname, i)
       IN  IF ~Exists(dir, n)
           THEN /\ pc' = [ pc EXCEPT ![s] = "failed" ]
                /\ UNCHANGED << dir, inode, log_files, touched >>
           ELSE /\ log_files' = [ log_files EXCEPT ![s] = Tail(@) ]
                /\ dir' = IF IsExpired(s, i) THEN Remove(dir, n)
                          ELSE Rename(dir, n, ShiftTarget(opts[s].fname, i))
                /\ inode' = Collect(inode, dir', fo)
                /\ touched' = IF IsExpired(s, i) THEN Touch(s, {n})
                              ELSE Touch(s, {n, ShiftTarget(opts[s].fname, i)})
                /\ UNCHANGED pc
    /\ UNCHANGED << Others, nrot, displaced, closes, std, pipe, fo, curr_pos,
                    buff, last, consumed >>

\* self.fo.close() after the loop.
RotateClose(s) ==
    /\ pc[s] = "shift"
    /\ log_files[s] = << >>
    /\ LET f == [ fo EXCEPT ![s] = Closed(@) ] IN
       /\ fo' = f
       /\ inode' = Collect(FlushIno(inode, fo[s]), dir, f)
       /\ std' = [ std EXCEPT ![s] = FlushStd(@, fo[s]) ]
    /\ pc' = [ pc EXCEPT ![s] = "rename" ]
    /\ displaced' = [ displaced EXCEPT ![s] = View(inode, fo[s]) ]
    /\ closes' = IF OwnsFile(s) THEN ClosedOne(s) ELSE closes
    /\ UNCHANGED << Others, nrot, touched, dir, pipe, curr_pos, buff,
                    log_files, last, consumed >>

\* A rotation that numbers the newest rotated file 0.
RotatedName_Zero(fname) == LogName(fname, 0)

\* The name the active file is renamed to.
RotatedName(fname) == LogName(fname, 1)

\* os.rename(self.fname, '%s.1' % self.fname): TypeError when fname is
\* None, OSError when the file is gone.
RotateRename(s) ==
    /\ pc[s] = "rename"
    /\ IF opts[s].fname = NoName \/ ~Exists(dir, opts[s].fname)
       THEN /\ pc' = [ pc EXCEPT ![s] = "failed" ]
            /\ UNCHANGED << dir, inode, touched >>
       ELSE /\ dir' = Rename(dir, opts[s].fname, RotatedName(opts[s].fname))
            /\ inode' = Collect(inode, dir', fo)
            /\ touched' = Touch(s, {opts[s].fname,
                                    RotatedName(opts[s].fname)})
            /\ pc' = [ pc EXCEPT ![s] = "open" ]
    /\ UNCHANGED << Others, nrot, displaced, closes, std, pipe, fo, curr_pos,
                    buff, log_files, last, consumed >>

\* What is written into the new file: buff[d:].
Remainder(s) == Drop(buff[s], Room(s))

\* self.curr_pos after a rotation.
AfterRotation(s) == 0

\* self.fo = open(self.fname, 'wb'); self.fo.write(buff[d:]);
\* self.curr_pos = 0  (the write is not flushed here).
RotateOpen(s) ==
    /\ pc[s] = "open"
    /\ dir' = OpenDir(dir, inode, opts[s].fname)
    /\ inode' = OpenIno(dir, inode, opts[s].fname)
    /\ fo' = [ fo EXCEPT ![s] =
                 FWrite(OpenFile(dir, inode, opts[s].fname), Remainder(s)) ]
    /\ curr_pos' = [ curr_pos EXCEPT ![s] = AfterRotation(s) ]
    /\ buff' = [ buff EXCEPT ![s] = << >> ]
    /\ pc' = [ pc EXCEPT ![s] = "read" ]
    /\ nrot' = [ nrot EXCEPT ![s] = @ + 1 ]
    /\ touched' = Touch(s, {opts[s].fname})
    /\ closes' = Opened(s)
    /\ UNCHANGED << Others, displaced, std, pipe, log_files, last, consumed >>

\* ------------------------------------------------------------------ Next
Next ==
    \/ \E s \in Streams : ChildWrite(s)
    \/ \E rc \in ExitCodes : ChildExit(rc)
    \/ Popen
    \/ \E s \in Streams : Construct(s)
    \/ \E s \in Streams : Start(s)
    \/ Wait
    \/ \E s \in Streams : Join(s)
    \/ Return
    \/ \E s \in Streams : ReadFd(s)
    \/ \E s \in Streams : ReadAgain(s)
    \/ \E s \in Streams : ReadEof(s)
    \/ \E s \in Streams : RotateList(s)
    \/ \E s \in Streams : RotateShift(s)
    \/ \E s \in Streams : RotateClose(s)
    \/ \E s \in Streams : RotateRename(s)
    \/ \E s \in Streams : RotateOpen(s)

Spec == Init /\ [][Next]_vars

SpecPre == InitPre /\ [][Next]_vars

\* The steps of run_program, and the steps of the collector thread of s.
Supervisor ==
    \/ Popen
    \/ \E s \in Streams : Construct(s)
    \/ \E s \in Streams : Start(s)
    \/ Wait
    \/ \E s \in Streams : Join(s)
    \/ Return
Collector(s) ==
    \/ ReadFd(s)
    \/ ReadAgain(s)
    \/ ReadEof(s)
    \/ RotateList(s)
    \/ RotateShift(s)
    \/ RotateClose(s)
    \/ RotateRename(s)
    \/ RotateOpen(s)

\* The main thread and the two collector threads are scheduled fairly:
\* a thread that can take a step eventually takes one.  Nothing is assumed
\* of the child.
SpecFair ==
    /\ InitFair
    /\ [][Next]_vars
    /\ WF_vars(Supervisor)
    /\ \A s \in Streams : WF_vars(Collector(s))

\* The whole of main: read_argv, then run_program, then the return.
NextMain ==
    \/ ReadArgv
    \/ PopenFails
    \/ MainReturn
    \/ Next

SpecMain == InitMain /\ [][NextMain]_vars

SpecShared == InitShared /\ [][NextMain]_vars

\* =================================================================
\* Properties
\* =================================================================
\* The three states of the specification's rotation policy, plus the
\* file-without-limit case.
Direct(s)          == opts[s].fname = NoName
BoundedNoRotate(s) ==
    opts[s].fname # NoName /\ opts[s].limit # 0 /\ opts[s].count = 0
BoundedRotate(s)   ==
    opts[s].fname # NoName /\ opts[s].limit # 0 /\ opts[s].count # 0

Built(s)      == pc[s] # "new"
InRotation(s) == pc[s] \in {"list_logs", "shift", "rename", "open"}

\* The content on disk of the file called n.
FileAt(n) == inode[dir[n]]

\* The suffixes of the rotated files of stream s that exist.
Suffixes(s) == { Counter(n) : n \in Glob(dir, opts[s].fname) }

\* The bytes of a sequence.
Bytes(q) == { q[i] : i \in 1..Len(q) }

\* -----------------------------------------------------------------
\* C1. Bounded-NoRotate (path and limit L, no count): whatever the chunks,
\* the target file holds exactly the first min(L, total) bytes read from
\* the pipe, in order; it never exceeds L bytes, no rotated file appears,
\* the collector never enters a rotation and never fails.
C1_NoRotateCapsAtLimit ==
    \A s \in Streams :
        (BoundedNoRotate(s) /\ Built(s)) =>
            /\ Exists(dir, opts[s].fname)
            /\ Len(FileAt(opts[s].fname)) <= opts[s].limit
            /\ FileAt(opts[s].fname) = Take(consumed[s], opts[s].limit)
            /\ Glob(dir, opts[s].fname) = {}
            /\ ~InRotation(s)
            /\ pc[s] # "failed"

\* A capped stream ended after more than L bytes were read (in more than
\* one chunk), so bytes were dropped.
C1_Witness ==
    \E s \in Streams :
        /\ BoundedNoRotate(s)
        /\ pc[s] = "finished"
        /\ Len(consumed[s]) > BUF_SIZE
        /\ Len(consumed[s]) > opts[s].limit

\* -----------------------------------------------------------------
\* C2. Bounded-Rotate with count C, no rotated files at the start: in every
\* state (the states inside a rotation included) the rotated files carry
\* suffixes in 1..C, so there are at most C of them; and a step that makes
\* a rotated file disappear removes a file whose suffix is >= C, which is
\* then the only file with such a suffix, and removes nothing else.
C2_SuffixesInRange ==
    \A s \in Streams :
        BoundedRotate(s) =>
            /\ Suffixes(s) \subseteq 1..opts[s].count
            /\ Cardinality(Glob(dir, opts[s].fname)) <= opts[s].count

C2_DeletesOnlyExpired ==
    \A s \in Streams :
        LET before == Glob(dir, opts[s].fname)
            after  == Glob(dir', opts[s].fname)
        IN  (BoundedRotate(s) /\ Cardinality(after) < Cardinality(before)) =>
                \E n \in before :
                    /\ Counter(n) >= opts[s].count
                    /\ after = before \ {n}
                    /\ \A m \in before :
                           Counter(m) >= opts[s].count => m = n

\* C2: from a start without rotated files, the suffixes are always within
\* 1..count and a rotated file only disappears as the single expired one.
C2_RotatedFilesBounded ==
    /\ [](dir0 = << >> => C2_SuffixesInRange)
    /\ [][dir0 = << >> => C2_DeletesOnlyExpired]_vars

\* A rotation with count 1 has just removed <path>.1, made by the rotation
\* before it, and is about to put the active file in its place.
C2_Witness ==
    \E s \in Streams :
        /\ BoundedRotate(s)
        /\ dir0 = << >>
        /\ nrot[s] >= 1
        /\ pc[s] = "shift"
        /\ log_files[s] = << >>
        /\ Suffixes(s) = {}

\* -----------------------------------------------------------------
\* C3. Bounded-Rotate, between rotations once one has completed: <path>.1
\* holds exactly what the active file held when the rotation closed it;
\* of two rotated files the one with the smaller suffix holds the later
\* bytes of the stream; the suffixes present are 1..k.
Settled(s) ==
    BoundedRotate(s) /\ nrot[s] >= 1 /\ pc[s] \in {"read", "finished"}

C3_NewestIsOne(s) ==
    /\ Exists(dir, LogName(opts[s].fname, 1))
    /\ FileAt(LogName(opts[s].fname, 1)) = displaced[s]

C3_OlderHasLargerSuffix(s) ==
    \A n, m \in Glob(dir, opts[s].fname) :
        Counter(n) < Counter(m) =>
            \A x \in Bytes(FileAt(n)), y \in Bytes(FileAt(m)) : x > y

C3_Contiguous(s) == Suffixes(s) = 1..Cardinality(Suffixes(s))

\* C3 as stated, for whatever rotated files exist at the start: between
\* rotations <path>.1 is the displaced file, smaller suffixes are newer and
\* the suffixes are 1..k.
C3_AsStated ==
    \A s \in Streams :
        Settled(s) =>
            /\ C3_NewestIsOne(s)
            /\ C3_OlderHasLargerSuffix(s)
            /\ C3_Contiguous(s)

\* The rotated files that existed at the start were numbered 1..k.
StartContiguous(s) ==
    LET S0 == { Counter(n) : n \in Glob(dir0, opts[s].fname) }
    IN  S0 = 1..Cardinality(S0)

\* C3 (amended). As C3, the suffixes being 1..k provided the rotated files
\* present when the program started were numbered 1..k themselves (none
\* being the common case).
C3_NewestFirst ==
    \A s \in Streams :
        Settled(s) =>
            /\ C3_NewestIsOne(s)
            /\ C3_OlderHasLargerSuffix(s)
            /\ StartContiguous(s) => C3_Contiguous(s)

\* Two rotations from an empty start: <path>.1 and <path>.2 both exist.
C3_Witness ==
    \E s \in Streams :
        /\ Settled(s)
        /\ dir0 = << >>
        /\ nrot[s] = 2
        /\ Suffixes(s) = {1, 2}

\* -----------------------------------------------------------------
\* C4. Bounded-Rotate: a chunk read while room = limit - curr_pos <= 0
\* starts a rotation, the whole chunk being kept for the new active file.
C4_RotatesWhenNoRoom ==
    [][ \A s \in Streams :
          ( /\ BoundedRotate(s)
            /\ pc[s] = "read"
            /\ Room(s) <= 0
            /\ consumed'[s] # consumed[s] ) =>
              ( /\ pc'[s] = "list_logs"
                /\ consumed'[s] = consumed[s] \o buff'[s] ) ]_vars

\* -----------------------------------------------------------------
\* C5. Bounded-Rotate, a chunk longer than the room that is left: its first
\* `room` bytes are appended to the active file and a rotation starts; when
\* the rotation ends the rest of the chunk is all the new active file
\* holds, and <path>.1 holds exactly `limit` bytes.
C5_Straddle ==
    [][ \A s \in Streams :
          /\ ( /\ BoundedRotate(s)
               /\ pc[s] = "read"
               /\ consumed'[s] # consumed[s]
               /\ Room(s) > 0
               /\ Len(consumed'[s]) - Len(consumed[s]) > Room(s) ) =>
                 ( /\ pc'[s] = "list_logs"
                   /\ View(inode', fo'[s]) =
                        View(inode, fo[s]) \o Take(buff'[s], Room(s)) )
          /\ ( BoundedRotate(s) /\ pc[s] = "open" /\ pc'[s] = "read" ) =>
                 ( /\ View(inode', fo'[s]) = Drop(buff[s], Room(s))
                   /\ Len(inode'[dir'[LogName(opts[s].fname, 1)]]) =
                        opts[s].limit ) ]_vars

\* -----------------------------------------------------------------
\* C6. Bounded-Rotate: the active file never holds more than `limit` bytes,
\* and so no rotated file does either.
C6_NeverOverLimit ==
    \A s \in Streams :
        (BoundedRotate(s) /\ dir0 = << >>) =>
            \A n \in ({opts[s].fname} \cup Glob(dir, opts[s].fname))
                       \cap DOMAIN dir :
                Len(FileAt(n)) <= opts[s].limit

\* -----------------------------------------------------------------
\* C7. No target file and no limit: what has been written to the default
\* stream is, byte for byte and in order, what has been read from the pipe;
\* and no step of the collector changes the directory.
OwnStep(s) ==
    \/ pc'[s] # pc[s]
    \/ fo'[s] # fo[s]
    \/ consumed'[s] # consumed[s]
    \/ last'[s] # last[s]
    \/ log_files'[s] # log_files[s]

C7_Forwarded(s) ==
    /\ std[s] = consumed[s]
    /\ ~InRotation(s)
    /\ pc[s] # "failed"

\* C7: a stream without file and limit is forwarded unchanged, and its
\* collector leaves the file system alone.
C7_DirectPassThrough ==
    /\ [](\A s \in Streams :
            (Direct(s) /\ opts[s].limit = 0) => C7_Forwarded(s))
    /\ [][ \A s \in Streams :
             (Direct(s) /\ opts[s].limit = 0 /\ OwnStep(s)) =>
                 (dir' = dir /\ inode' = inode) ]_vars

\* A pass-through stream ended after several chunks.
C7_Witness ==
    \E s \in Streams :
        /\ Direct(s)
        /\ opts[s].limit = 0
        /\ pc[s] = "finished"
        /\ Len(consumed[s]) > BUF_SIZE
        /\ std[s] = consumed[s]

\* -----------------------------------------------------------------
\* C8. No target file, whatever limit and count are: every chunk reaches
\* the default stream whole, no rotation is attempted and the collector
\* never closes the default stream.
C8_DirectWhateverLimit ==
    \A s \in Streams :
        (Direct(s) /\ Built(s)) =>
            /\ std[s] = consumed[s]
            /\ ~InRotation(s)
            /\ ~fo[s].closed
            /\ pc[s] # "failed"

\* -----------------------------------------------------------------
\* C9. A target file and no limit, whatever the count: the file holds
\* every byte read from the pipe, in order; no rotated file appears and no
\* rotation starts.
C9_CountIgnoredWithoutLimit ==
    \A s \in Streams :
        (opts[s].fname # NoName /\ opts[s].limit = 0 /\ Built(s)) =>
            /\ Exists(dir, opts[s].fname)
            /\ FileAt(opts[s].fname) = consumed[s]
            /\ Glob(dir, opts[s].fname) = {}
            /\ ~InRotation(s)
            /\ pc[s] # "failed"

\* A file without limit but with a count took the whole stream.
C9_Witness ==
    \E s \in Streams :
        /\ opts[s].fname # NoName
        /\ opts[s].limit = 0
        /\ opts[s].count # 0
        /\ pc[s] = "finished"
        /\ Len(consumed[s]) = MaxInput

\* -----------------------------------------------------------------
\* C10. run_program has returned only if the child has exited and both
\* collector threads have ended; what it returned is the child's exit code.
C10_ReturnsAfterAll ==
    (sup = "done" \/ result # -1) =>
        /\ child = "exited"
        /\ \A s \in Streams : pc[s] \in {"finished", "failed"}
        /\ result = exit_code

\* run_program returned a non-zero exit code after both streams carried data.
C10_Witness ==
    /\ sup = "done"
    /\ result = 3
    /\ \A s \in Streams : consumed[s] # << >>

\* -----------------------------------------------------------------
\* The contract of the flags: a file flag names a path that does not exist
\* in a directory that exists and is writable; a count is a positive
\* integer; a limit is digits and a unit B, K, M or G, with a value > 0;
\* the command is not empty and can be resolved.
FileFlagOk(f) ==
    f.path = NoName \/ (f.path \notin DOMAIN dir0 /\ f.parent = "ok")
CountFlagOk(c) == c.k = "none" \/ (c.k = "int" /\ c.n > 0)
LimitFlagOk(l) ==
    l.k = "none" \/ (l.k = "int" /\ l.unit \in {"B", "K", "M", "G"} /\ l.n > 0)
ArgvOk ==
    /\ \A s \in Streams : /\ FileFlagOk(argv.flags[s].file)
                          /\ CountFlagOk(argv.flags[s].count)
                          /\ LimitFlagOk(argv.flags[s].limit)
    /\ argv.args = "ok"

NothingCreated == dir = dir0 /\ inode = [ i \in DOMAIN inode |-> << >> ]

\* C11. When a flag or the command is not valid, no child is ever spawned,
\* no collector is built and no file is created, and once read_argv is
\* over main has returned 1; when Popen fails, main has returned 1, no
\* collector has been built or started and no file has been created.
C11_FailuresLeaveNothing ==
    /\ ~ArgvOk =>
           /\ child = "none"
           /\ \A s \in Streams : pc[s] = "new"
           /\ NothingCreated
           /\ sup # "read_argv" => (sup = "rot_error" /\ status = 1)
    /\ sup = "os_error" =>
           /\ status = 1
           /\ child = "none"
           /\ \A s \in Streams : pc[s] = "new"
           /\ NothingCreated

\* main returned 1 for a count of 0 given next to a valid target file.
C11_Witness ==
    /\ sup = "rot_error"
    /\ status = 1
    /\ argv.flags["out"].file = [ path |-> PathOf("out"), parent |-> "ok" ]
    /\ PathOf("out") \notin DOMAIN dir0
    /\ argv.flags["out"].count = [ k |-> "int", n |-> 0 ]
    /\ argv.args = "ok"

\* -----------------------------------------------------------------
\* C12. When a collector has ended by an I/O error (a rename or a remove
\* that failed), what run_program and main return is the failure value 1,
\* not the exit code of the child.
C12_FailureSurfaces ==
    (\E s \in Streams : pc[s] = "failed") =>
        /\ sup = "done" => result = 1
        /\ sup = "exit" => status = 1

\* -----------------------------------------------------------------
\* The files the collector of s opened: each one but the latest has been
\* closed once, the latest at most once.
ClosedInTurn(s) ==
    \A i \in 1..Len(closes[s]) :
        closes[s][i] = IF i < Len(closes[s]) THEN 1 ELSE closes[s][i] % 2

\* The collector of s has observed EOF and is done: its file object is
\* closed if it is a file, and every file it opened (one at construction,
\* one per rotation) has been closed exactly once.
DoneAtEof(s) ==
    pc[s] = "finished" =>
        /\ last[s] = "eof"
        /\ opts[s].fname # NoName =>
               /\ fo[s].closed
               /\ Len(closes[s]) = nrot[s] + 1
        /\ opts[s].fname = NoName => closes[s] = << >>
        /\ \A i \in 1..Len(closes[s]) : closes[s][i] = 1

\* C13. Once a collector has read EOF it reads, writes and rotates no
\* more; it has then closed its active file exactly once if it owns one,
\* and every file it ever opened has been closed exactly once.
C13_QuietAfterEof ==
    [][ \A s \in Streams :
          /\ ClosedInTurn(s)'
          /\ DoneAtEof(s)'
          /\ pc[s] = "finished" =>
                /\ pc'[s] = "finished"
                /\ last'[s] = "eof"
                /\ consumed'[s] = consumed[s]
                /\ fo'[s] = fo[s]
                /\ curr_pos'[s] = curr_pos[s]
                /\ nrot'[s] = nrot[s]
                /\ touched'[s] = touched[s]
                /\ closes'[s] = closes[s]
                /\ std'[s] = std[s]
                /\ \A n \in touched[s] :
                      /\ (n \in DOMAIN dir) = (n \in DOMAIN dir')
                      /\ n \in DOMAIN dir => inode'[dir'[n]] = inode[dir[n]]
      ]_vars

\* A collector finished after a rotation while the other was working.
C13_Witness ==
    \E s \in Streams :
        /\ pc[s] = "finished"
        /\ closes[s] = << 1, 1 >>
        /\ \E t \in Streams : pc[t] = "read" /\ consumed[t] # << >>

\* -----------------------------------------------------------------
\* C14. With a file and a limit, with or without a count, curr_pos never
\* exceeds the limit, whatever the size of the chunks.
C14_PosWithinLimit ==
    \A s \in Streams :
        (BoundedNoRotate(s) \/ BoundedRotate(s)) =>
            curr_pos[s] <= opts[s].limit

\* -----------------------------------------------------------------
\* C15. With a file and a limit, between two chunks curr_pos is the number
\* of bytes written to the active file since it was opened (after a
\* rotation: the length of the remainder written into the new file).
C15_PosIsBytesWritten ==
    \A s \in Streams :
        (/\ BoundedNoRotate(s) \/ BoundedRotate(s)
         /\ pc[s] = "read") =>
            curr_pos[s] = Len(View(inode, fo[s]))

\* -----------------------------------------------------------------
\* C16. Whatever command line passed validation, no file name that one
\* collector has created, written, renamed or removed has been created,
\* written, renamed or removed by the other one.
C16_NoSharedFile ==
    sup # "read_argv" =>
        \A s, t \in Streams : s # t => touched[s] \cap touched[t] = {}

\* -----------------------------------------------------------------
\* C17. Once the child has terminated, each collector eventually observes
\* EOF and finishes and run_program eventually returns; and run_program
\* has not returned while the child has not terminated.
C17_EofThenReturn ==
    /\ (child = "exited") ~>
           (sup = "done" /\ \A s \in Streams : pc[s] = "finished"
                                               /\ last[s] = "eof")
    /\ [](sup \in {"join_out", "join_err", "return", "done"} =>
              child = "exited")

\* -----------------------------------------------------------------
\* C18. A read that would block neither ends nor fails the collector,
\* which is back at the read; the step changes neither curr_pos, nor the
\* content of any file or of the default streams, nor the set of files.
C18_WouldBlockIsNoError ==
    [][ \A s \in Streams :
          /\ last'[s] = "eagain" => pc'[s] = "read"
          /\ (last[s] # "eagain" /\ last'[s] = "eagain") =>
                /\ pc' = pc
                /\ curr_pos' = curr_pos
                /\ fo' = fo
                /\ dir' = dir
                /\ inode' = inode
                /\ std' = std
                /\ consumed' = consumed
                /\ pipe' = pipe
      ]_vars

\* A read would block after the collector has rotated its file.
C18_Witness ==
    \E s \in Streams :
        /\ last[s] = "eagain"
        /\ nrot[s] > 0
        /\ Suffixes(s) # {}
        /\ child = "running"

\* -----------------------------------------------------------------
\* The inodes that have a name in directory d.
Linked(d) == { d[n] : n \in DOMAIN d }

\* C19. No step of a rotation gives an existing name another file (no
\* rename lands on a name that exists), and a file loses its last name
\* only when it is a rotated file of a rotating collector whose suffix
\* has reached the count and that name is removed; the content of a file
\* that keeps a name is never cut.  Rotated files of an earlier run may
\* be present when the rotation starts.
C19_RenameNeverOverwrites ==
    [][ /\ \A n \in DOMAIN dir \cap DOMAIN dir' :
              /\ dir'[n] = dir[n]
              /\ IsPrefix(inode[dir[n]], inode'[dir'[n]])
        /\ \A n \in DOMAIN dir :
              dir[n] \notin Linked(dir') =>
                  /\ n \notin DOMAIN dir'
                  /\ \E s \in Streams :
                        /\ pc[s] = "shift"
                        /\ n \in Glob(dir, opts[s].fname)
                        /\ Counter(n) >= opts[s].count
      ]_vars

\* A rotation has shifted and removed rotated files left by an earlier run.
C19_Witness ==
    /\ nrot["out"] > 0
    /\ Cardinality(DOMAIN dir0) = 2
    /\ opts["out"].count = 2
    /\ Suffixes("out") = {1, 2}

\* -----------------------------------------------------------------
\* The content of the rotated files of s whose suffixes are listed in q,
\* one after the other.
RECURSIVE Joined(_, _)
Joined(s, q) ==
    IF q = << >> THEN << >>
    ELSE FileAt(LogName(opts[s].fname, Head(q))) \o Joined(s, Tail(q))

\* What is kept of the stream of s: the rotated files from the highest
\* suffix down to 1, then the active file.
Kept(s) ==
    Joined(s, Reverse(ListLogs(dir, opts[s].fname))) \o View(inode, fo[s])

\* p is the end of q.
IsTail(p, q) ==
    Len(p) <= Len(q) /\ SubSeq(q, Len(q) - Len(p) + 1, Len(q)) = p

\* C20. Bounded-Rotate, started without rotated files: between two chunks
\* the rotated files from the highest suffix down to 1 followed by the
\* active file are the last bytes read, without a gap, up to the last byte
\* read.
C20_NoByteDropped ==
    \A s \in Streams :
        (BoundedRotate(s) /\ pc[s] \in {"read", "finished"}) =>
            IsTail(Kept(s), consumed[s])

=============================================================================
